---- MODULE Spec2Model ----
(***************************************************************************)
(* Model of python/paddle/vision/datasets/folder.py: the extension filter, *)
(* class discovery, the sorted directory walk, and the two folder scanners *)
(* DatasetFolder and ImageFolder with their __getitem__ / __len__.         *)
(*                                                                         *)
(* Strings are sequences of character codes (ASCII), so that lower(),      *)
(* endswith() and Python's string ordering are computed, not assumed.      *)
(* A path is a sequence of names; its string is the names joined by "/".   *)
(***************************************************************************)
EXTENDS Integers, Sequences, FiniteSets, TLC

VARIABLES fs, pc, kind, self, args, err, ret, calls

vars == <<fs, pc, kind, self, args, err, ret, calls>>

(* ------------------------------ bounds -------------------------------- *)
MaxFiles == 2     \* regular files in the whole tree

(* --------------------------- character data --------------------------- *)
Sep == 47                                  \* "/"
Comma == <<44>>                            \* ","
Tilde == <<126>>                           \* "~"

ExtJpg == <<46, 106, 112, 103>>            \* ".jpg"
ExtJpeg == <<46, 106, 112, 101, 103>>      \* ".jpeg"
ExtPng == <<46, 112, 110, 103>>            \* ".png"
ExtPpm == <<46, 112, 112, 109>>            \* ".ppm"
ExtBmp == <<46, 98, 109, 112>>             \* ".bmp"
ExtPgm == <<46, 112, 103, 109>>            \* ".pgm"
ExtTif == <<46, 116, 105, 102>>            \* ".tif"
ExtTiff == <<46, 116, 105, 102, 102>>      \* ".tiff"
ExtWebp == <<46, 119, 101, 98, 112>>       \* ".webp"
ExtTxt == <<46, 116, 120, 116>>            \* ".txt"

IMG_EXTENSIONS ==
  <<ExtJpg, ExtJpeg, ExtPng, ExtPpm, ExtBmp, ExtPgm, ExtTif, ExtTiff, ExtWebp>>

(* names used to populate the directory tree *)
DirA == <<97>>                             \* "a"
DirADashB == <<97, 45, 98>>                \* "a-b"  ("-" sorts below "/")
DirNames == {DirA, DirADashB}

File1Jpg == <<49, 46, 106, 112, 103>>      \* "1.jpg"
File10JPG == <<49, 48, 46, 74, 80, 71>>    \* "10.JPG"
FileNTxt == <<110, 46, 116, 120, 116>>     \* "n.txt"
FileNames == {File1Jpg, File10JPG, FileNTxt}

Home == <<(<<104>>)>>                      \* the home directory, "h"
Missing == <<(<<113>>)>>                   \* "q": never exists

None == "None"

(* ----------------------------- strings -------------------------------- *)
\* str.lower() on one character
LowerChar(c) == IF c >= 65 /\ c <= 90 THEN c + 32 ELSE c

\* str.lower()
Lower(s) == [i \in 1..Len(s) |-> LowerChar(s[i])]

\* s.endswith(suffix) for one suffix
EndsWithOne(s, suffix) ==
  /\ Len(suffix) <= Len(s)
  /\ SubSeq(s, Len(s) - Len(suffix) + 1, Len(s)) = suffix

\* s.endswith(tuple_of_suffixes)
EndsWith(s, suffixes) ==
  \E i \in 1..Len(suffixes) : EndsWithOne(s, suffixes[i])

\* Python's < on str: lexicographic by code point, a proper prefix is smaller
RECURSIVE StrLess(_, _)
StrLess(a, b) ==
  IF b = <<>> THEN FALSE
  ELSE IF a = <<>> THEN TRUE
  ELSE IF Head(a) # Head(b) THEN Head(a) < Head(b)
  ELSE StrLess(Tail(a), Tail(b))

\* sep.join(parts)
RECURSIVE Join(_, _)
Join(sep, parts) ==
  IF parts = <<>> THEN <<>>
  ELSE IF Len(parts) = 1 THEN parts[1]
  ELSE parts[1] \o sep \o Join(sep, Tail(parts))

\* the string of a path
PathStr(p) == Join(<<Sep>>, p)

\* os.path.join(dir, name), name relative
PathJoin(p, name) == Append(p, name)

\* os.path.expanduser(path)
ExpandUser(p) == IF p # <<>> /\ p[1] = Tilde THEN Home \o Tail(p) ELSE p

(* ------------------------- Python's sorted() -------------------------- *)
\* lexicographic < on lists of str
RECURSIVE ListLess(_, _)
ListLess(a, b) ==
  IF b = <<>> THEN FALSE
  ELSE IF a = <<>> THEN TRUE
  ELSE IF Head(a) # Head(b) THEN StrLess(Head(a), Head(b))
  ELSE ListLess(Tail(a), Tail(b))

\* < on the (root, dirs, fnames) tuples that os.walk yields
WalkLess(t, u) ==
  IF PathStr(t[1]) # PathStr(u[1]) THEN StrLess(PathStr(t[1]), PathStr(u[1]))
  ELSE IF t[2] # u[2] THEN ListLess(t[2], u[2])
  ELSE ListLess(t[3], u[3])

\* stable insertion of x into an ascending list of str
RECURSIVE InsertStr(_, _)
InsertStr(x, sorted) ==
  IF sorted = <<>> THEN <<x>>
  ELSE IF StrLess(x, Head(sorted)) THEN <<x>> \o sorted
  ELSE <<Head(sorted)>> \o InsertStr(x, Tail(sorted))

\* sorted(list_of_str), also list.sort()
RECURSIVE SortedStrs(_)
SortedStrs(xs) ==
  IF xs = <<>> THEN <<>>
  ELSE InsertStr(xs[Len(xs)], SortedStrs(SubSeq(xs, 1, Len(xs) - 1)))

RECURSIVE InsertWalk(_, _)
InsertWalk(x, sorted) ==
  IF sorted = <<>> THEN <<x>>
  ELSE IF WalkLess(x, Head(sorted)) THEN <<x>> \o sorted
  ELSE <<Head(sorted)>> \o InsertWalk(x, Tail(sorted))

\* mutant: the walk's tuples are used in the order os.walk yields them
UnsortedWalk(ts) == ts

\* sorted(os.walk(...))
RECURSIVE SortedWalk(_)
SortedWalk(ts) ==
  IF ts = <<>> THEN <<>>
  ELSE InsertWalk(ts[Len(ts)], SortedWalk(SubSeq(ts, 1, Len(ts) - 1)))

(* --------------------------- the file system -------------------------- *)
\* fs.dirs and fs.files are sets of paths.
IsDir(p) == p \in fs.dirs
IsFile(p) == p \in fs.files
SubdirNames(p) == {n \in DirNames : PathJoin(p, n) \in fs.dirs}
FileNamesIn(p) == {n \in FileNames : PathJoin(p, n) \in fs.files}

\* every order in which the elements of S can be listed
RECURSIVE Perms(_)
Perms(S) ==
  IF S = {} THEN {<<>>}
  ELSE UNION {{<<x>> \o p : p \in Perms(S \ {x})} : x \in S}

\* one listing order for each directory of D, chosen independently
RECURSIVE ListingsOver(_)
ListingsOver(D) ==
  IF D = {} THEN {<<>>}
  ELSE LET d == CHOOSE d \in D : TRUE
       IN  {(d :> p) @@ f :
              p \in Perms(SubdirNames(d) \cup FileNamesIn(d)),
              f \in ListingsOver(D \ {d})}

\* What the platform leaves open: the order in which each directory is
\* listed (any order, each directory on its own) and the order in which a
\* mapping hands out its keys.
Listings == ListingsOver(fs.dirs)
KeyOrders == Perms(DirNames)

\* os.scandir(dir): the entries of dir, in the order ord lists them; no
\* entries for a dir that cannot be listed (the error raised is ScandirError)
Scandir(dir, ord) ==
  IF dir \in DOMAIN ord.listing THEN ord.listing[dir] ELSE <<>>

\* class_to_idx.keys()
DictKeys(class_to_idx, ord) ==
  SelectSeq(ord.keys, LAMBDA k : k \in DOMAIN class_to_idx)

\* os.walk(top, followlinks=True): top-down, one (root, dirs, fnames) per
\* directory, dirs and fnames in listing order; a top that cannot be listed
\* yields nothing (onerror is None)
RECURSIVE OsWalk(_, _)
RECURSIVE OsWalkEach(_, _, _)
OsWalk(top, ord) ==
  IF ~IsDir(top) THEN <<>>
  ELSE LET listed == Scandir(top, ord)
           dirs == SelectSeq(listed, LAMBDA n : IsDir(PathJoin(top, n)))
           fnames == SelectSeq(listed, LAMBDA n : IsFile(PathJoin(top, n)))
       IN  <<(<<top, dirs, fnames>>)>> \o OsWalkEach(top, dirs, ord)

OsWalkEach(top, dirs, ord) ==
  IF dirs = <<>> THEN <<>>
  ELSE OsWalk(PathJoin(top, Head(dirs)), ord) \o OsWalkEach(top, Tail(dirs), ord)

(* ------------------------- the extension filter ----------------------- *)
\* has_valid_extension(filename, extensions)
has_valid_extension(filename, extensions) == EndsWith(Lower(filename), extensions)

\* An optional tuple of extensions: Nothing is Python's None, Just(t) is t.
Nothing == <<>>
Just(t) == <<t>>

\* caller-supplied predicates used as inputs
CustomPredicates == {"accept_all", "only_txt"}
CallCustom(name, path) ==
  CASE name = "accept_all" -> TRUE
    [] name = "only_txt" -> EndsWithOne(path, ExtTxt)

\* mutant: a supplied is_valid_file wins over the extensions
PreferCustomPredicate(extensions, is_valid_file) ==
  IF is_valid_file # None
    THEN [by |-> "custom", extensions |-> <<>>, name |-> is_valid_file]
    ELSE [by |-> "extensions", extensions |-> extensions[1], name |-> None]

\* The predicate the scan applies: the closure over extensions when extensions
\* is not None (it rebinds is_valid_file), else the caller's is_valid_file.
ResolvePredicate(extensions, is_valid_file) ==
  IF extensions # Nothing
    THEN [by |-> "extensions", extensions |-> extensions[1], name |-> None]
    ELSE [by |-> "custom", extensions |-> <<>>, name |-> is_valid_file]

\* results of a step that may raise: raises is None or the exception type
Returns(v) == [raises |-> None, value |-> v]
Raises(e) == [raises |-> e, value |-> <<>>]

\* is_valid_file(path) for a resolved predicate; calling None is a TypeError
CallPredicate(pred, path) ==
  IF pred.by = "extensions"
    THEN Returns(has_valid_extension(path, pred.extensions))
  ELSE IF pred.name = None THEN Raises("TypeError")
  ELSE Returns(CallCustom(pred.name, path))

\* for fname in sorted(fnames): path = join(root, fname); if is_valid_file(path)
RECURSIVE CollectFiles(_, _, _)
CollectFiles(root, fnames, pred) ==
  IF fnames = <<>> THEN Returns(<<>>)
  ELSE LET path == PathJoin(root, Head(fnames))
           valid == CallPredicate(pred, PathStr(path))
           rest == CollectFiles(root, Tail(fnames), pred)
       IN  IF valid.raises # None THEN Raises(valid.raises)
           ELSE IF rest.raises # None THEN rest
           ELSE IF valid.value THEN Returns(<<path>> \o rest.value)
           ELSE rest

\* for root, _, fnames in <walk>: ...
RECURSIVE CollectWalk(_, _)
CollectWalk(walk, pred) ==
  IF walk = <<>> THEN Returns(<<>>)
  ELSE LET here == CollectFiles(Head(walk)[1], SortedStrs(Head(walk)[3]), pred)
           rest == CollectWalk(Tail(walk), pred)
       IN  IF here.raises # None THEN here
           ELSE IF rest.raises # None THEN rest
           ELSE Returns(here.value \o rest.value)

\* the loop body shared by make_dataset and ImageFolder.__init__:
\* for root, _, fnames in sorted(os.walk(d, followlinks=True)): ...
WalkAndCollect(d, pred, ord) == CollectWalk(SortedWalk(OsWalk(d, ord)), pred)

\* mutant: listing a missing directory gives an empty listing, no error
ScandirNeverFails(dir) == None

(* --------------------------- DatasetFolder ---------------------------- *)
\* DatasetFolder._find_classes(dir): os.scandir raises on a dir it cannot list
ScandirError(dir) ==
  IF IsDir(dir) THEN None
  ELSE IF IsFile(dir) THEN "NotADirectoryError" ELSE "FileNotFoundError"

SelectDirs(dir, names) == SelectSeq(names, LAMBDA n : IsDir(PathJoin(dir, n)))

ClassToIdx(classes) ==
  [c \in {classes[i] : i \in 1..Len(classes)} |->
     CHOOSE i \in 0..(Len(classes) - 1) : classes[i + 1] = c]

\* mutant: classes.sort() left out
FindClassesUnsorted(classes) == classes

FindClassesSort(classes) == SortedStrs(classes)

_find_classes(dir, ord) ==
  LET listed == Scandir(dir, ord)
      classes == FindClassesSort(SelectDirs(dir, listed))
  IN  [classes |-> classes, class_to_idx |-> ClassToIdx(classes)]

\* make_dataset: the per-class loop
RECURSIVE MakeDatasetLoop(_, _, _, _, _)
MakeDatasetLoop(dir, targets, class_to_idx, pred, ord) ==
  IF targets = <<>> THEN Returns(<<>>)
  ELSE LET target == Head(targets)
           d == PathJoin(dir, target)
           rest == MakeDatasetLoop(dir, Tail(targets), class_to_idx, pred, ord)
           found == WalkAndCollect(d, pred, ord)
           items == [i \in 1..Len(found.value) |->
                       <<found.value[i], class_to_idx[target]>>]
       IN  IF ~IsDir(d) THEN rest
           ELSE IF found.raises # None THEN found
           ELSE IF rest.raises # None THEN rest
           ELSE Returns(items \o rest.value)

\* mutant: the classes are visited in the order the mapping lists its keys
make_dataset_unsorted(dir, class_to_idx, extensions, is_valid_file, ord) ==
  MakeDatasetLoop(ExpandUser(dir),
                  DictKeys(class_to_idx, ord),
                  class_to_idx,
                  ResolvePredicate(extensions, is_valid_file),
                  ord)

\* make_dataset(dir, class_to_idx, extensions, is_valid_file)
make_dataset(dir, class_to_idx, extensions, is_valid_file, ord) ==
  MakeDatasetLoop(ExpandUser(dir),
                  SortedStrs(DictKeys(class_to_idx, ord)),
                  class_to_idx,
                  ResolvePredicate(extensions, is_valid_file),
                  ord)

(* --------------------------- inputs and state ------------------------- *)
\* the directories that may exist below Home: a, a-b and a/a.  As strings
\* "h/a" < "h/a-b" < "h/a/a", while a/a lies inside a.
DirCandidates ==
  {PathJoin(Home, DirA), PathJoin(Home, DirADashB),
   PathJoin(PathJoin(Home, DirA), DirA)}

Parent(p) == SubSeq(p, 1, Len(p) - 1)

DirSets ==
  {T \in SUBSET DirCandidates : \A p \in T : Parent(p) \in T \cup {Home}}

\* subsets of S with at most k elements
RECURSIVE UpTo(_, _)
UpTo(S, k) ==
  IF k = 0 THEN {{}}
  ELSE UpTo(S, k - 1) \cup {T \cup {x} : T \in UpTo(S, k - 1), x \in S}

FileSystems ==
  UNION {{[dirs |-> T \cup {Home}, files |-> F] :
            F \in UpTo({PathJoin(d, n) : d \in T \cup {Home}, n \in FileNames},
                       MaxFiles)} :
         T \in DirSets}

RootChoices == {Home, <<Tilde>>, Missing, PathJoin(Home, FileNTxt)}
ExtensionChoices == {Nothing, Just(<<ExtJpg>>), Just(<<ExtTxt>>)}
PredicateChoices == {None} \cup CustomPredicates
LoaderChoices == {None, "my_loader"}
TransformChoices == {None, "my_transform"}
Indices == (0 - MaxFiles - 2)..(MaxFiles + 1)
Outcomes == {"returns", "raises"}

NoError == [type |-> None, msg |-> <<>>]
NoObject == [samples |-> <<>>]
NoArgs == [root |-> <<>>]
NoReturn == [op |-> None, index |-> 0, value |-> Nothing]

Init ==
  /\ fs \in FileSystems
  /\ pc = "new"
  /\ kind = None
  /\ self = NoObject
  /\ args = NoArgs
  /\ err = NoError
  /\ ret = NoReturn
  /\ calls = <<>>

\* TypeError raised by calling is_valid_file when it is None
NotCallable ==
  [type |-> "TypeError", msg |-> <<"'NoneType' object is not callable">>]

\* mutant: the message leaves the extensions out
FoundZeroFilesNoExtensions(root, extensions) ==
  [type |-> "RuntimeError",
   msg |-> <<"Found 0 files in subfolders of: ", PathStr(root),
             "\nSupported extensions are: ", <<>> >>]

\* RuntimeError("Found 0 files in subfolders of: " + self.root + "\n"
\*              "Supported extensions are: " + ",".join(extensions))
FoundZeroFiles(root, extensions) ==
  [type |-> "RuntimeError",
   msg |-> <<"Found 0 files in subfolders of: ", PathStr(root),
             "\nSupported extensions are: ", Join(Comma, extensions)>>]

\* the extensions = IMG_EXTENSIONS default of both constructors
DefaultExtensions(extensions) ==
  IF extensions = Nothing THEN Just(IMG_EXTENSIONS) ELSE extensions

\* [s[1] for s in samples]
Targets(samples) == [i \in 1..Len(samples) |-> samples[i][2]]

\* cv2_loader if loader is None else loader
ResolveLoader(loader) == IF loader = None THEN "cv2_loader" ELSE loader

\* the directory DatasetFolder.__init__ hands to _find_classes
FindClassesDir(root) == root

\* DatasetFolder.__init__(root, loader, extensions, transform, is_valid_file)
DatasetFolderInit(root, loader, extensions, transform, is_valid_file, ord) ==
  /\ pc = "new"
  /\ LET exts == DefaultExtensions(extensions)
         dir == FindClassesDir(root)
         found == _find_classes(dir, ord)
         made == make_dataset(root, found.class_to_idx, exts,
                              is_valid_file, ord)
         samples == made.value
     IN  IF ScandirError(dir) # None
           THEN /\ pc' = "failed"
                /\ err' = [type |-> ScandirError(dir), msg |-> <<PathStr(dir)>>]
                /\ self' = NoObject
         ELSE IF made.raises # None
           THEN /\ pc' = "failed"
                /\ err' = NotCallable
                /\ self' = NoObject
         ELSE IF Len(samples) = 0
           THEN /\ pc' = "failed"
                /\ err' = FoundZeroFiles(root, exts[1])
                /\ self' = NoObject
         ELSE /\ pc' = "built"
              /\ err' = NoError
              /\ self' = [root |-> root,
                          transform |-> transform,
                          loader |-> ResolveLoader(loader),
                          extensions |-> exts[1],
                          classes |-> found.classes,
                          class_to_idx |-> found.class_to_idx,
                          samples |-> samples,
                          targets |-> Targets(samples)]
  /\ kind' = "DatasetFolder"
  /\ args' = [root |-> root, extensions |-> extensions,
              is_valid_file |-> is_valid_file]
  /\ UNCHANGED <<fs, ret, calls>>

(* ----------------------------- ImageFolder ---------------------------- *)
\* ImageFolder.__init__(root, loader, extensions, transform, is_valid_file)
ImageFolderInit(root, loader, extensions, transform, is_valid_file, ord) ==
  /\ pc = "new"
  /\ LET exts == DefaultExtensions(extensions)
         path == ExpandUser(root)
         walked == WalkAndCollect(path,
                                  ResolvePredicate(exts, is_valid_file), ord)
         samples == walked.value
     IN  IF walked.raises # None
           THEN /\ pc' = "failed"
                /\ err' = NotCallable
                /\ self' = NoObject
         ELSE IF Len(samples) = 0
           THEN /\ pc' = "failed"
                /\ err' = FoundZeroFiles(root, exts[1])
                /\ self' = NoObject
         ELSE /\ pc' = "built"
              /\ err' = NoError
              /\ self' = [root |-> root,
                          loader |-> ResolveLoader(loader),
                          extensions |-> exts[1],
                          samples |-> samples,
                          transform |-> transform]
  /\ kind' = "ImageFolder"
  /\ args' = [root |-> root, extensions |-> extensions,
              is_valid_file |-> is_valid_file]
  /\ UNCHANGED <<fs, ret, calls>>

(* ------------------------- __getitem__, __len__ ----------------------- *)
\* mutant: negative indices rejected
NonNegativeIndexInRange(xs, index) == index >= 0 /\ index < Len(xs)

\* Python list indexing: xs[index] with index in [-len, len), else IndexError
ListIndexInRange(xs, index) == index >= 0 - Len(xs) /\ index < Len(xs)
ListIndex(xs, index) ==
  IF index < 0 THEN xs[Len(xs) + index + 1] ELSE xs[index + 1]

\* what the external loader / transform hand back when they return
Loaded(loader, path) == [by |-> loader, path |-> path]
Transformed(transform, sample) == [by |-> transform, of |-> sample]

\* mutant: the transform is never applied
LoadWithoutTransform(path, loads, transforms) ==
  LET raw == [by |-> self.loader, path |-> path]
      c1 == <<(<<"loader", self.loader, path>>)>>
  IN  IF loads = "raises"
        THEN [calls |-> c1, err |-> [type |-> "LoaderError", msg |-> <<>>],
              sample |-> <<>>]
      ELSE [calls |-> c1, err |-> [type |-> None, msg |-> <<>>],
            sample |-> <<raw>>]

\* the body shared by both __getitem__: sample = self.loader(path);
\* if self.transform is not None: sample = self.transform(sample)
\* Gives the calls made, the exception raised (or NoError) and the sample.
LoadAndTransform(path, loads, transforms) ==
  LET raw == Loaded(self.loader, path)
      c1 == <<(<<"loader", self.loader, path>>)>>
      c2 == c1 \o <<(<<"transform", self.transform, raw>>)>>
  IN  IF loads = "raises"
        THEN [calls |-> c1, err |-> [type |-> "LoaderError", msg |-> <<>>],
              sample |-> Nothing]
      ELSE IF self.transform = None
        THEN [calls |-> c1, err |-> NoError, sample |-> Just(raw)]
      ELSE IF transforms = "raises"
        THEN [calls |-> c2, err |-> [type |-> "TransformError", msg |-> <<>>],
              sample |-> Nothing]
      ELSE [calls |-> c2, err |-> NoError,
            sample |-> Just(Transformed(self.transform, raw))]

IndexError == [type |-> "IndexError", msg |-> <<"list index out of range">>]

\* DatasetFolder.__getitem__(index)
DatasetFolderGetItem(index, loads, transforms) ==
  /\ pc = "built" /\ kind = "DatasetFolder"
  /\ IF ~ListIndexInRange(self.samples, index)
       THEN /\ err' = IndexError
            /\ calls' = <<>>
            /\ ret' = [op |-> "getitem", index |-> index, value |-> Nothing]
     ELSE LET path == ListIndex(self.samples, index)[1]
              target == ListIndex(self.samples, index)[2]
              r == LoadAndTransform(path, loads, transforms)
          IN  /\ err' = r.err
              /\ calls' = r.calls
              /\ ret' = [op |-> "getitem", index |-> index,
                         value |-> IF r.err = NoError
                                     THEN Just(<<r.sample[1], target>>)
                                     ELSE Nothing]
  /\ UNCHANGED <<fs, pc, kind, self, args>>

\* ImageFolder.__getitem__(index)
ImageFolderGetItem(index, loads, transforms) ==
  /\ pc = "built" /\ kind = "ImageFolder"
  /\ IF ~ListIndexInRange(self.samples, index)
       THEN /\ err' = IndexError
            /\ calls' = <<>>
            /\ ret' = [op |-> "getitem", index |-> index, value |-> Nothing]
     ELSE LET path == ListIndex(self.samples, index)
              r == LoadAndTransform(path, loads, transforms)
          IN  /\ err' = r.err
              /\ calls' = r.calls
              /\ ret' = [op |-> "getitem", index |-> index,
                         value |-> IF r.err = NoError
                                     THEN Just(<<r.sample[1]>>)
                                     ELSE Nothing]
  /\ UNCHANGED <<fs, pc, kind, self, args>>

\* DatasetFolder.__len__ and ImageFolder.__len__
GetLen ==
  /\ pc = "built"
  /\ ret' = [op |-> "len", index |-> 0, value |-> Just(Len(self.samples))]
  /\ err' = NoError
  /\ calls' = <<>>
  /\ UNCHANGED <<fs, pc, kind, self, args>>

\* a constructor call with its arguments drawn from the given sets
Construct(roots, loaders, extensionses, transforms, predicates) ==
  \E root \in roots, loader \in loaders, extensions \in extensionses,
     transform \in transforms, is_valid_file \in predicates,
     listing \in Listings :
       \/ \E keys \in KeyOrders :
            DatasetFolderInit(root, loader, extensions, transform,
                              is_valid_file,
                              [listing |-> listing, keys |-> keys])
       \/ ImageFolderInit(root, loader, extensions, transform,
                          is_valid_file,
                          [listing |-> listing, keys |-> <<>>])

\* construction over every root, extension tuple and predicate
ScanConstruct ==
  Construct(RootChoices, {None}, ExtensionChoices, {None}, PredicateChoices)

\* construction over every loader and transform, default filter
AccessConstruct ==
  Construct({Home}, LoaderChoices, {Nothing}, TransformChoices, {None})

Access ==
  \E index \in Indices, loads \in Outcomes, transforms \in Outcomes :
       \/ DatasetFolderGetItem(index, loads, transforms)
       \/ ImageFolderGetItem(index, loads, transforms)

\* the scan at construction time, and length()
Next == ScanConstruct \/ GetLen

Spec == Init /\ [][Next]_vars

\* item access on constructed scanners
NextAccess == AccessConstruct \/ Access \/ GetLen

SpecAccess == Init /\ [][NextAccess]_vars

(* ====================================================================== *)
(* Properties.  The definitions below describe the expected results from  *)
(* the file system alone; they do not use the walk or the sorts above.    *)
(* ====================================================================== *)
Last(p) == p[Len(p)]
IsPrefix(d, p) == Len(d) <= Len(p) /\ SubSeq(p, 1, Len(d)) = d
Range(xs) == {xs[i] : i \in 1..Len(xs)}

Constructed == pc \in {"built", "failed"}
Built(k) == pc = "built" /\ kind = k

\* the directory the walk starts from, and the extensions in force
ScanRoot == ExpandUser(args.root)
EffectiveExtensions ==
  IF args.extensions = Nothing THEN IMG_EXTENSIONS ELSE args.extensions[1]

\* the lowercased path string ends with one of the extensions
HasExtension(f, extensions) ==
  LET str == PathStr(f)
  IN  \E i \in 1..Len(extensions) :
        LET e == extensions[i]
        IN  /\ Len(e) <= Len(str)
            /\ \A k \in 1..Len(e) : LowerChar(str[Len(str) - Len(e) + k]) = e[k]

\* the regular files a scanner of this kind walks over
WalkedFiles(k) ==
  IF k = "ImageFolder"
    THEN {f \in fs.files : IsPrefix(ScanRoot, f) /\ Len(f) > Len(ScanRoot)}
    ELSE {f \in fs.files : IsPrefix(ScanRoot, f) /\ Len(f) > Len(ScanRoot) + 1}

\* the paths of the samples, in order
SamplePaths ==
  IF kind = "DatasetFolder"
    THEN [i \in 1..Len(self.samples) |-> self.samples[i][1]]
    ELSE self.samples

\* files ordered by the string of their directory, then by file name
FileLess(p, q) ==
  IF Parent(p) # Parent(q)
    THEN StrLess(PathStr(Parent(p)), PathStr(Parent(q)))
    ELSE StrLess(Last(p), Last(q))

\* depth-first order: own files first, then each subdirectory's whole
\* subtree, subdirectories by name
DepthFirstLess(p, q) ==
  LET k == CHOOSE k \in 1..Len(p) :
             /\ k <= Len(q) /\ p[k] # q[k]
             /\ \A j \in 1..(k - 1) : p[j] = q[j]
  IN  IF k = Len(p) /\ k = Len(q) THEN StrLess(p[k], q[k])
      ELSE IF k = Len(p) THEN TRUE
      ELSE IF k = Len(q) THEN FALSE
      ELSE StrLess(p[k], q[k])

MinFile(S) == CHOOSE x \in S : \A y \in S : y = x \/ FileLess(x, y)

RECURSIVE InFileOrder(_)
InFileOrder(S) ==
  IF S = {} THEN <<>> ELSE <<MinFile(S)>> \o InFileOrder(S \ {MinFile(S)})

\* pairs of positions of one walk: all of them for ImageFolder, those of the
\* same class for DatasetFolder
SameWalk(i, j) ==
  kind = "ImageFolder" \/ self.samples[i][2] = self.samples[j][2]

(* ----------------------------- C1 ------------------------------------- *)
ClassFiles(c) ==
  InFileOrder({f \in WalkedFiles("DatasetFolder") :
                 f[Len(ScanRoot) + 1] = c /\ HasExtension(f, self.extensions)})

RECURSIVE ConcatClasses(_)
ConcatClasses(cs) ==
  IF cs = <<>> THEN <<>>
  ELSE [i \in 1..Len(ClassFiles(Head(cs))) |->
          <<ClassFiles(Head(cs))[i], self.class_to_idx[Head(cs)]>>]
       \o ConcatClasses(Tail(cs))

\* C1: a DatasetFolder's samples are the concatenation, over the classes in
\* sorted order, of each class's qualifying files in walk order paired with
\* class_to_idx[class]; targets is parallel to samples with
\* targets[i] = samples[i][1]; and length() is the number of samples.
C1_SamplesTargetsLength ==
  Built("DatasetFolder") =>
    /\ self.samples = ConcatClasses(self.classes)
    /\ Len(self.targets) = Len(self.samples)
    /\ \A i \in 1..Len(self.samples) : self.targets[i] = self.samples[i][2]
    /\ ret.op = "len" => ret.value = Just(Len(self.samples))

C1_Witness ==
  /\ Built("DatasetFolder")
  /\ ret.op = "len"
  /\ self.targets = <<0, 1>>

(* ----------------------------- C2 ------------------------------------- *)
\* C2: the classes are exactly the immediate subdirectories of root, in
\* ascending string order, and class_to_idx maps each to its position from 0,
\* whatever order the directory was listed in.
C2_ClassesSortedAndIndexed ==
  Built("DatasetFolder") =>
    /\ Range(self.classes) = SubdirNames(args.root)
    /\ Len(self.classes) = Cardinality(SubdirNames(args.root))
    /\ \A i \in 1..(Len(self.classes) - 1) :
         StrLess(self.classes[i], self.classes[i + 1])
    /\ DOMAIN self.class_to_idx = SubdirNames(args.root)
    /\ \A i \in 1..Len(self.classes) :
         self.class_to_idx[self.classes[i]] = i - 1

C2_Witness ==
  /\ Built("DatasetFolder")
  /\ Len(self.classes) = 2
  /\ FileNamesIn(args.root) # {}

(* ----------------------------- C3 ------------------------------------- *)
\* the scan ran to its end (class discovery, where there is one, succeeded)
ScanRan == kind = "ImageFolder" \/ IsDir(args.root)

\* C3: when the scan collects no qualifying file, construction fails with
\* the "Found 0 files" error naming the root as passed and the extensions in
\* force; a constructed scanner never has length 0.
C3_EmptyScanFails ==
  /\ (Constructed /\ ScanRan
        /\ \A f \in WalkedFiles(kind) : ~HasExtension(f, EffectiveExtensions))
       => /\ pc = "failed"
          /\ err.type = "RuntimeError"
          /\ err.msg[1] = "Found 0 files in subfolders of: "
          /\ err.msg[2] = PathStr(args.root)
          /\ err.msg[4] = Join(Comma, EffectiveExtensions)
  /\ pc = "built" =>
       /\ Len(self.samples) > 0
       /\ ret.op = "len" => ret.value # Just(0)

C3_Witness ==
  /\ pc = "failed"
  /\ err.type = "RuntimeError"
  /\ IsDir(args.root)
  /\ WalkedFiles(kind) # {}
  /\ args.extensions = Nothing

(* ----------------------------- C4 ------------------------------------- *)
\* C4 as stated: every index outside [0, length()), negative ones included,
\* makes get fail with IndexError and return nothing.
C4_AsStated ==
  (ret.op = "getitem" /\ (ret.index < 0 \/ ret.index >= Len(self.samples)))
    => (err.type = "IndexError" /\ ret.value = Nothing)

\* C4, amended: get fails with IndexError, without calling the loader, for
\* index >= length() and for index < -length(); an index in [-length(), -1]
\* is served like index + length().
C4_IndexErrorOutsidePythonRange ==
  ret.op = "getitem" =>
    LET n == Len(self.samples)
    IN  /\ (ret.index >= n \/ ret.index < 0 - n)
          => (err.type = "IndexError" /\ ret.value = Nothing /\ calls = <<>>)
        /\ (ret.index < 0 /\ ret.index >= 0 - n)
          => /\ err.type # "IndexError"
             /\ calls[1][3] = SamplePaths[n + ret.index + 1]

C4_Witness ==
  /\ ret.op = "getitem"
  /\ ret.index < 0 - Len(self.samples)
  /\ err.type = "IndexError"

(* ----------------------------- C5 ------------------------------------- *)
\* C5: with a custom is_valid_file and no extensions argument, a walked file
\* is in samples exactly when is_valid_file accepts its path.
C5_CustomPredicateDecides ==
  (Constructed /\ ScanRan /\ args.extensions = Nothing
     /\ args.is_valid_file # None)
    => Range(SamplePaths) =
         {f \in WalkedFiles(kind) : CallCustom(args.is_valid_file, PathStr(f))}

(* ----------------------------- C6 ------------------------------------- *)
\* C6: with both extensions and a custom is_valid_file, samples holds exactly
\* the walked files whose lowercased path ends with one of the extensions.
C6_ExtensionsOverrideCustom ==
  (Constructed /\ ScanRan /\ args.extensions # Nothing
     /\ args.is_valid_file # None)
    => Range(SamplePaths) =
         {f \in WalkedFiles(kind) : HasExtension(f, args.extensions[1])}

C6_Witness ==
  /\ pc = "built"
  /\ args.extensions # Nothing
  /\ args.is_valid_file # None
  /\ \E f \in WalkedFiles(kind) :
       /\ CallCustom(args.is_valid_file, PathStr(f))
       /\ f \notin Range(SamplePaths)

(* ----------------------------- C7 ------------------------------------- *)
\* C7: get(i) for i in [0, length()) calls the loader exactly once, on the
\* path stored at samples[i]; the transform is applied to what the loader
\* returned exactly when a transform was supplied; DatasetFolder returns the
\* pair (sample, label), ImageFolder the one-element list [sample]; a loader
\* or transform failure is the failure of get.
C7_LoadOnceThenTransform ==
  (ret.op = "getitem" /\ ret.index >= 0 /\ ret.index < Len(self.samples)) =>
    LET path == SamplePaths[ret.index + 1]
        raw == [by |-> self.loader, path |-> path]
        sample == IF self.transform = None THEN raw
                  ELSE [by |-> self.transform, of |-> raw]
        loader_calls == SelectSeq(calls, LAMBDA c : c[1] = "loader")
        transform_calls == SelectSeq(calls, LAMBDA c : c[1] = "transform")
    IN  /\ loader_calls = <<(<<"loader", self.loader, path>>)>>
        /\ calls[1][1] = "loader"
        /\ transform_calls \in
             {<<>>, <<(<<"transform", self.transform, raw>>)>>}
        /\ err.type # "LoaderError" =>
             (transform_calls # <<>> <=> self.transform # None)
        /\ err.type = "LoaderError" => transform_calls = <<>>
        /\ err = NoError =>
             ret.value = IF kind = "DatasetFolder"
                           THEN Just(<<sample, self.samples[ret.index + 1][2]>>)
                           ELSE Just(<<sample>>)
        /\ err # NoError =>
             /\ err.type \in {"LoaderError", "TransformError"}
             /\ ret.value = Nothing

C7_Witness ==
  /\ ret.op = "getitem"
  /\ kind = "ImageFolder"
  /\ self.transform # None
  /\ self.loader = "cv2_loader"
  /\ err = NoError
  /\ ret.index = 1
  /\ Len(ret.value[1]) = 1

(* ----------------------------- C8 ------------------------------------- *)
RootIsNoDirectory == ~IsDir(ScanRoot)
FilesystemErrors == {"FileNotFoundError", "NotADirectoryError"}

\* C8 as stated: either scanner, built on a root that does not exist or is
\* not a directory, fails with the file system's not-found / not-a-directory
\* error.
C8_AsStated ==
  (Constructed /\ RootIsNoDirectory)
    => (pc = "failed" /\ err.type \in FilesystemErrors)

\* C8, amended: on such a root DatasetFolder fails with the file system's
\* error (FileNotFoundError for a missing root, NotADirectoryError for a
\* file) raised by the listing in _find_classes; ImageFolder fails with the
\* "Found 0 files" RuntimeError, its walk yielding nothing.
C8_MissingRootFails ==
  (Constructed /\ RootIsNoDirectory) =>
    /\ pc = "failed"
    /\ kind = "DatasetFolder" =>
         err.type = IF IsFile(ScanRoot) THEN "NotADirectoryError"
                    ELSE "FileNotFoundError"
    /\ kind = "ImageFolder" =>
         /\ err.type = "RuntimeError"
         /\ err.msg[2] = PathStr(args.root)

C8_Witness ==
  /\ pc = "failed"
  /\ kind = "DatasetFolder"
  /\ IsFile(ScanRoot)
  /\ err.type = "NotADirectoryError"

(* ----------------------------- C9 ------------------------------------- *)
\* C9 as stated: the walk emits the qualifying paths depth-first: file names
\* sorted within a directory, own files before subdirectories, sibling
\* subdirectories by name, one subtree whole before the next sibling.
C9_AsStated ==
  pc = "built" =>
    \A i, j \in 1..Len(self.samples) :
      (i < j /\ SameWalk(i, j)) => DepthFirstLess(SamplePaths[i], SamplePaths[j])

\* C9, amended: the walk emits the qualifying paths directory by directory,
\* the directories in ascending order of their full path string and the file
\* names sorted within each; so a directory's own files precede those of the
\* directories below it.
C9_DirectoriesByPathString ==
  pc = "built" =>
    \A i, j \in 1..Len(self.samples) :
      (i < j /\ SameWalk(i, j)) =>
        /\ FileLess(SamplePaths[i], SamplePaths[j])
        /\ ~(/\ Parent(SamplePaths[j]) # Parent(SamplePaths[i])
             /\ IsPrefix(Parent(SamplePaths[j]), Parent(SamplePaths[i])))

C9_Witness ==
  /\ Built("ImageFolder")
  /\ Len(self.samples) = 2
  /\ Parent(self.samples[1]) = PathJoin(Home, DirADashB)
  /\ Parent(self.samples[2]) = PathJoin(PathJoin(Home, DirA), DirA)

(* ----------------------------- C10 ------------------------------------ *)
\* C10: DatasetFolder built on a root in ~ form, whose expanded directory
\* holds class subfolders with qualifying files, succeeds with the classes
\* and samples of the expanded directory.
C10_TildeRootScansExpandedDirectory ==
  (Constructed /\ kind = "DatasetFolder" /\ args.root = <<Tilde>>
     /\ \E f \in WalkedFiles("DatasetFolder") :
          HasExtension(f, EffectiveExtensions))
    => /\ pc = "built"
       /\ Range(self.classes) = SubdirNames(ScanRoot)
       /\ Range(SamplePaths) =
            {f \in WalkedFiles("DatasetFolder") :
               HasExtension(f, EffectiveExtensions)}

====
